---- MODULE Spec2Model ----
(***************************************************************************)
(* A model of web2pdf: agent.py (extract_metadata, download_images,        *)
(* insert_metadata) as state machines over texts.                           *)
(*                                                                         *)
(* TEXTS.  A text is a sequence of tokens.  Every character that occurs in *)
(* a character class of one of the regular expressions of agent.py         *)
(*      ]  )  >  "  &  }  :  and white space                               *)
(* is a token of its own, and so are  [  (  {  ?  !  ; every other token   *)
(* is a word that contains none of these characters (so a negated class    *)
(* accepts a word as a whole), and no literal of a regular expression      *)
(* starts or ends inside a word.  On such texts matching token by token    *)
(* is matching character by character.                                     *)
(***************************************************************************)
EXTENDS Integers, Sequences, FiniteSets, TLC

VARIABLES
    san_pc,             \* insert_metadata: "ready" | "assets" (line 173 done) |
                        \*   "tracked" (line 185 done) | "done" (returned)
    san_in,             \* the text of md_file that insert_metadata read
    content,            \* insert_metadata's local `content`
    md_file,            \* the text of the file md_file
    san_images,         \* the argument downloaded_images
    san_assets,         \* what `content` was after line 173
    metadata,           \* the argument metadata
    dl_pc,              \* download_images: "start" | "loop" | "done"
    dl_content,         \* the text download_images read from md_file
    images,             \* re.findall(image_pattern, content): <<img_url, alt_text>> pairs
    dl_i,               \* enumerate's i + 1: the position in images of the next pair
    downloaded_images,  \* the dict download_images builds and returns
    fs,                 \* the files under img/: name -> what they hold
    dl_log,             \* the calls of requests.get, in order, and how each iteration ended
    meta_pc,            \* extract_metadata: "ready" | "returned" | "raised"
    html,               \* the markup as BeautifulSoup parsed it
    title,              \* the first value extract_metadata returns
    author,             \* the second value extract_metadata returns
    tex_pc,             \* LaTeXCompiler: "ready" | "pass1" | "pass2" | "check_pdf" |
                        \*   "cleanup" | "returned"
    tex_call,           \* the method called and its arguments
    tex_fs,             \* the files that exist: [dir, name]
    tex_fs0,            \* the files that existed when the method was called
    tex_log,            \* the runs of xelatex, in order, and the calls of cleanup_aux_files
    tex_ret,            \* what the method returned
    main_pc,            \* main: where it is ("idle" when a function is called on its own)
    main_log,           \* the functions main has called, in order
    main_tools,         \* the calls of requests.get and pandoc main has caused, with outcome
    main_metadata       \* main's local `metadata`, line 282

san_vars == <<san_pc, san_in, content, md_file, san_images, san_assets, metadata>>
dl_vars == <<dl_pc, dl_content, images, dl_i, downloaded_images, fs, dl_log>>
meta_vars == <<meta_pc, html, title, author>>
tex_vars == <<tex_pc, tex_call, tex_fs, tex_fs0, tex_log, tex_ret>>
main_vars == <<main_pc, main_log, main_tools, main_metadata>>
vars == <<san_vars, dl_vars, meta_vars, tex_vars, main_vars>>
\* what an action of one function leaves alone: the other functions' state
NotSan == <<dl_vars, meta_vars, tex_vars, main_vars>>
NotDl == <<san_vars, meta_vars, tex_vars, main_vars>>
NotMeta == <<san_vars, dl_vars, tex_vars, main_vars>>
NotTex == <<san_vars, dl_vars, meta_vars, main_vars>>

(***************************************************************************)
(* Bounds of the model.                                                    *)
(***************************************************************************)
MaxFrags == 2
MaxImgs == 3
MaxMetas == 2
MaxStr == 2

WS == {" ", "\n"}

(***************************************************************************)
(* Python's re on token sequences.  A pattern is a sequence of elements:   *)
(* a literal, or a repetition of a class of tokens (greedy or lazy).       *)
(***************************************************************************)
Lit(w) == [k |-> "lit", w |-> w, neg |-> FALSE, set |-> {}, min |-> 0, greedy |-> TRUE]
\* [^...]*
StarNot(ex) == [k |-> "rep", w |-> <<>>, neg |-> TRUE, set |-> ex, min |-> 0, greedy |-> TRUE]
\* [^...]+
PlusNot(ex) == [k |-> "rep", w |-> <<>>, neg |-> TRUE, set |-> ex, min |-> 1, greedy |-> TRUE]
\* c+
PlusOf(in) == [k |-> "rep", w |-> <<>>, neg |-> FALSE, set |-> in, min |-> 1, greedy |-> TRUE]
\* .*? under re.DOTALL
LazyAny == [k |-> "rep", w |-> <<>>, neg |-> TRUE, set |-> {}, min |-> 0, greedy |-> FALSE]

InClass(t, e) == IF e.neg THEN t \notin e.set ELSE t \in e.set

\* The longest run of tokens of e's class in s from position i.
RECURSIVE Run(_, _, _)
Run(e, s, i) ==
    IF i <= Len(s) /\ InClass(s[i], e) THEN 1 + Run(e, s, i + 1) ELSE 0

\* The match of elements k.. of pattern p in s at position i that a
\* backtracking matcher finds first: the start of each element and the end
\* of the match, or <<>> when there is none.
RECURSIVE Match(_, _, _, _)
RECURSIVE TryRep(_, _, _, _, _, _)
Match(p, k, s, i) ==
    IF k > Len(p) THEN <<i>>
    ELSE LET e == p[k] IN
         IF e.k = "lit"
         THEN IF i + Len(e.w) - 1 <= Len(s) /\ SubSeq(s, i, i + Len(e.w) - 1) = e.w
              THEN LET r == Match(p, k + 1, s, i + Len(e.w))
                   IN  IF r = <<>> THEN <<>> ELSE <<i>> \o r
              ELSE <<>>
         ELSE LET mx == Run(e, s, i)
              IN  IF mx < e.min THEN <<>>
                  ELSE TryRep(p, k, s, i, IF e.greedy THEN mx ELSE e.min, mx)

TryRep(p, k, s, i, j, mx) ==
    LET e == p[k]
        r == Match(p, k + 1, s, i + j)
    IN  IF r # <<>> THEN <<i>> \o r
        ELSE IF e.greedy
             THEN IF j <= e.min THEN <<>> ELSE TryRep(p, k, s, i, j - 1, mx)
             ELSE IF j >= mx THEN <<>> ELSE TryRep(p, k, s, i, j + 1, mx)

MatchEnd(m) == m[Len(m)]
\* The text of pattern element g in match m of s.
Group(s, m, g) == SubSeq(s, m[g], m[g + 1] - 1)

(***************************************************************************)
(* The regular expressions of agent.py.                                    *)
(***************************************************************************)
\* <img[^>]*src="([^"]*)"[^>]*alt="([^"]*)"[^>]*>
image_pattern ==
    << Lit(<<"<img">>), StarNot({">"}), Lit(<<"src=", "\"">>), StarNot({"\""}),
       Lit(<<"\"">>), StarNot({">"}), Lit(<<"alt=", "\"">>), StarNot({"\""}),
       Lit(<<"\"">>), StarNot({">"}), Lit(<<">">>) >>

\* <figure[^>]*>.*?<img[^>]*src="([^"]*)"[^>]*alt="([^"]*)"[^>]*>.*?</figure>
figure_pattern ==
    << Lit(<<"<figure">>), StarNot({">"}), Lit(<<">">>), LazyAny >>
    \o image_pattern \o << LazyAny, Lit(<<"</figure", ">">>) >>

\* !\[[^\]]*\]\([^\s)]+\.pdf[^\)]*\)
pdf_pattern ==
    << Lit(<<"!", "[">>), StarNot({"]"}), Lit(<<"]", "(">>), PlusNot(WS \cup {")"}),
       Lit(<<".pdf">>), StarNot({")"}), Lit(<<")">>) >>

\* !\[[^\]]*\]\(data:image/[^)]*\)
data_pattern ==
    << Lit(<<"!", "[">>), StarNot({"]"}), Lit(<<"]", "(", "data", ":", "image/">>),
       StarNot({")"}), Lit(<<")">>) >>

\* !\[[^\]]*\]\(/_next/image/[^)]*\)
next_pattern ==
    << Lit(<<"!", "[">>), StarNot({"]"}), Lit(<<"]", "(", "/_next/image/">>),
       StarNot({")"}), Lit(<<")">>) >>

\* (\{rel="[^"]*"\})
rel_pattern == << Lit(<<"{", "rel=", "\"">>), StarNot({"\""}), Lit(<<"\"", "}">>) >>
\* _hsenc=[^&\)\s]*
hsenc_pattern == << Lit(<<"_hsenc=">>), StarNot(WS \cup {"&", ")"}) >>
\* \?utm_[^&\)\s]*
qutm_pattern == << Lit(<<"?", "utm_">>), StarNot(WS \cup {"&", ")"}) >>
\* &utm_[^&\)\s]*
autm_pattern == << Lit(<<"&", "utm_">>), StarNot(WS \cup {"&", ")"}) >>
\* &&+
ampamp_pattern == << Lit(<<"&">>), PlusOf({"&"}) >>
\* &\)
ampparen_pattern == << Lit(<<"&", ")">>) >>
\* \?\)
qparen_pattern == << Lit(<<"?", ")">>) >>
\* \{[^}]*\}
brace_pattern == << Lit(<<"{">>), StarNot({"}"}), Lit(<<"}">>) >>
\* target="_blank"[^)]*
target_pattern == << Lit(<<"target=", "\"", "_blank", "\"">>), StarNot({")"}) >>
\* :::+[^:]*:::+
div3_pattern ==
    << Lit(<<":", ":">>), PlusOf({":"}), StarNot({":"}), Lit(<<":", ":">>), PlusOf({":"}) >>
\* ::+[^:]*::+
div2_pattern ==
    << Lit(<<":">>), PlusOf({":"}), StarNot({":"}), Lit(<<":">>), PlusOf({":"}) >>

(***************************************************************************)
(* Asset descriptors and the mapping download_images returns.              *)
(***************************************************************************)
Placeholder == <<"example-image-a">>

\* downloaded_images as insert_metadata sees it: None (given = FALSE) or a dict.
NoImages == [given |-> FALSE, map |-> <<>>]
Dict(f) == [given |-> TRUE, map |-> f]
\* Python's truth value of the argument: None and {} are false.
Truthy(dl) == dl.given /\ DOMAIN dl.map # {}

(***************************************************************************)
(* insert_metadata's replacements.                                         *)
(***************************************************************************)
\* m.group(0).split("](")[-1]: the text after the last "](" of g
RECURSIVE LastSplit(_, _)
LastSplit(g, j) ==
    IF j < 1 THEN g
    ELSE IF g[j] = "]" /\ g[j + 1] = "(" THEN SubSeq(g, j + 2, Len(g))
    ELSE LastSplit(g, j - 1)

\* .rstrip(")")
RECURSIVE RStripParen(_)
RStripParen(g) ==
    IF g # <<>> /\ g[Len(g)] = ")" THEN RStripParen(SubSeq(g, 1, Len(g) - 1)) ELSE g

pdf_link(g) ==
    <<"[", "PDF", " ", "link", "]", "(">> \o RStripParen(LastSplit(g, Len(g) - 1)) \o <<")">>

MdImage(alt, target) == <<"!", "[">> \o alt \o <<"]", "(">> \o target \o <<")">>
ImageFallback(alt) == <<"[", "Image", ":", " ">> \o alt \o <<"]">>
ImageRemoved == <<"[", "Image", "]">>

replace_figure(img_url, alt_text, dl) ==
    IF img_url \in DOMAIN dl.map
    THEN IF dl.map[img_url].filename = Placeholder
         THEN MdImage(alt_text, Placeholder)
         ELSE MdImage(alt_text, dl.map[img_url].path)
    ELSE ImageFallback(alt_text)

\* A rule: a pattern and what replaces a match (g1, g2: the pattern elements
\* that are groups 1 and 2 of replace_figure's match).
Rule(pat, repl) == [pat |-> pat, repl |-> repl, g1 |-> 0, g2 |-> 0]
FigRule(pat, g1, g2) == [pat |-> pat, repl |-> "figure", g1 |-> g1, g2 |-> g2]

Replacement(rule, s, m, dl) ==
    CASE rule.repl = "pdf"    -> pdf_link(SubSeq(s, m[1], MatchEnd(m) - 1))
      [] rule.repl = "image"  -> ImageRemoved
      [] rule.repl = "figure" -> replace_figure(Group(s, m, rule.g1), Group(s, m, rule.g2), dl)
      [] rule.repl = "amp"    -> <<"&">>
      [] rule.repl = "paren"  -> <<")">>
      [] OTHER                -> <<>>

\* re.sub(pattern, replacement, s): the leftmost matches, left to right, none
\* overlapping (no pattern here matches the empty text).
RECURSIVE SubFrom(_, _, _, _)
SubFrom(rule, s, i, dl) ==
    IF i > Len(s) THEN <<>>
    ELSE LET m == Match(rule.pat, 1, s, i)
         IN  IF m = <<>> THEN <<s[i]>> \o SubFrom(rule, s, i + 1, dl)
             ELSE Replacement(rule, s, m, dl) \o SubFrom(rule, s, MatchEnd(m), dl)

Sub(rule, s, dl) == SubFrom(rule, s, 1, dl)

(***************************************************************************)
(* insert_metadata, lines 138-193: the rewrite rules in the code's order.  *)
(***************************************************************************)
\* lines 139-147
RuleLinks(s) ==
    LET c1 == Sub(Rule(pdf_pattern, "pdf"), s, NoImages)
        c2 == Sub(Rule(data_pattern, "image"), c1, NoImages)
    IN  Sub(Rule(next_pattern, "image"), c2, NoImages)

\* lines 150-173
RuleAssets(s, dl) ==
    IF Truthy(dl)
    THEN LET c1 == Sub(FigRule(image_pattern, 4, 8), s, dl)
         IN  Sub(FigRule(figure_pattern, 8, 12), c1, dl)
    ELSE s

\* RuleTracking without line 185
RuleTracking_NoQParen(s) ==
    LET c1 == Sub(Rule(rel_pattern, "empty"), s, NoImages)
        c2 == Sub(Rule(hsenc_pattern, "empty"), c1, NoImages)
        c3 == Sub(Rule(qutm_pattern, "empty"), c2, NoImages)
        c4 == Sub(Rule(autm_pattern, "empty"), c3, NoImages)
        c5 == Sub(Rule(ampamp_pattern, "amp"), c4, NoImages)
    IN  Sub(Rule(ampparen_pattern, "paren"), c5, NoImages)

\* lines 177-185
RuleTracking(s) ==
    LET c1 == Sub(Rule(rel_pattern, "empty"), s, NoImages)
        c2 == Sub(Rule(hsenc_pattern, "empty"), c1, NoImages)
        c3 == Sub(Rule(qutm_pattern, "empty"), c2, NoImages)
        c4 == Sub(Rule(autm_pattern, "empty"), c3, NoImages)
        c5 == Sub(Rule(ampamp_pattern, "amp"), c4, NoImages)
        c6 == Sub(Rule(ampparen_pattern, "paren"), c5, NoImages)
    IN  Sub(Rule(qparen_pattern, "paren"), c6, NoImages)

\* lines 188-189
RuleAttributes(s) ==
    LET c1 == Sub(Rule(brace_pattern, "empty"), s, NoImages)
    IN  Sub(Rule(target_pattern, "empty"), c1, NoImages)

\* lines 192-193
RuleDivs(s) ==
    LET c1 == Sub(Rule(div3_pattern, "empty"), s, NoImages)
    IN  Sub(Rule(div2_pattern, "empty"), c1, NoImages)

\* lines 138-193: rules 1-7, without the header
Rules17(s, dl) == RuleDivs(RuleAttributes(RuleTracking(RuleAssets(RuleLinks(s), dl))))

(***************************************************************************)
(* insert_metadata, lines 195-197: the YAML header.                        *)
(***************************************************************************)
\* metadata is a dict: its items, in the order they were inserted
Keys(md) == {md[k][1] : k \in 1..Len(md)}
Value(md, key) == md[CHOOSE k \in 1..Len(md) : md[k][1] = key][2]

\* yaml.dump sorts the keys of the dict: the five keys in sorted order
KeyOrder == <<"author", "date", "editor", "title", "url">>
\* yaml.dump quotes a string that would read back as another type (a date)
YamlScalar(v) == IF v = <<"2025-08-05">> THEN <<"'">> \o v \o <<"'">> ELSE v

RECURSIVE YamlDump(_, _)
YamlDump(md, k) ==
    IF k > Len(KeyOrder) THEN <<>>
    ELSE (IF KeyOrder[k] \in Keys(md)
          THEN <<KeyOrder[k], ":", " ">> \o YamlScalar(Value(md, KeyOrder[k])) \o <<"\n">>
          ELSE <<>>) \o YamlDump(md, k + 1)

\* a dump that keeps the order of insertion (sort_keys=False)
RECURSIVE YamlDumpUnsorted(_)
YamlDumpUnsorted(md) ==
    IF md = <<>> THEN <<>>
    ELSE <<md[1][1], ":", " ">> \o YamlScalar(md[1][2]) \o <<"\n">> \o YamlDumpUnsorted(Tail(md))

\* yaml_header with the unsorted dump
yaml_header_Unsorted(md) == <<"---", "\n">> \o YamlDumpUnsorted(md) \o <<"---", "\n">>

yaml_header(md) == <<"---", "\n">> \o YamlDump(md, 1) \o <<"---", "\n">>

(***************************************************************************)
(* The texts and mappings insert_metadata is run on.                       *)
(***************************************************************************)
L_png == <<"http", ":", "//x/a", ".png">>
L_gifq == <<"http", ":", "//x/b", ".gif", "?", "v=1">>
L_GIF == <<"http", ":", "//x/e", ".GIF">>
L_pdf == <<"http", ":", "//x/c", ".pdf">>
L_noext == <<"https", ":", "//x/d">>
L_rel == <<"/rel", ".png">>

ImgTag(url, alt) ==
    <<"<img", " ", "src=", "\"">> \o url \o <<"\"", " ", "alt=", "\"">> \o alt \o <<"\"", ">">>
ImgTagAltFirst(url, alt) ==
    <<"<img", " ", "alt=", "\"">> \o alt \o <<"\"", " ", "src=", "\"">> \o url \o <<"\"", ">">>
Figure(url, alt) ==
    <<"<figure", ">">> \o ImgTag(url, alt)
    \o <<"<figcaption", ">", "cap", "</figcaption", ">", "</figure", ">">>

Digit == <<"1", "2", "3", "4", "5", "6">>
\* f"{slug}_image_{i+1}{ext}" (line 83)
FileName(n, ext) == <<"slug", "_image_", Digit[n]>> \o ext
\* lines 118-122
RealDesc(alt, n, ext) ==
    [path |-> <<"img/">> \o FileName(n, ext), alt |-> alt, filename |-> FileName(n, ext)]
\* line 127
PlaceholderDesc(alt) == [path |-> Placeholder, alt |-> alt, filename |-> Placeholder]

SanFrags ==
    { ImgTag(L_png, <<"A">>), ImgTag(L_rel, <<"B">>), ImgTag(L_pdf, <<"A">>),
      ImgTagAltFirst(L_png, <<"A">>), Figure(L_png, <<"A">>),
      MdImage(<<"a">>, <<"x", ".pdf">>),
      MdImage(<<"a">>, <<"data", ":", "image/", "png;base64,AA">>),
      MdImage(<<"a">>, <<"/_next/image/", "x">>),
      MdImage(<<"a">>, L_png),
      <<"[", "t", "]", "(", "http", ":", "//x/p", "?", "utm_", "source=foo", "&", "utm_", "medium=bar", ")">>,
      <<"(", "//x/p", "?", "_hsenc=", "abc", "&", "utm_", "x", ")">>,
      <<"(", "//x/q", "?", "_hsenc=", "a", "&", "_hsenc=", "b", "&", "_hsenc=", "c", ")">>,
      <<"{", ".cls", "}">>, <<"{", "rel=", "\"", "noopener", "\"", "}">>,
      <<"target=", "\"", "_blank", "\"", " ", "x", ")">>,
      <<":", ":", ":", " ", "note", "\n", "text", "\n", ":", ":", ":">>,
      <<"?">>, <<"&">>, <<"!">>, <<"t">> }

RECURSIVE Texts(_, _)
Texts(frags, n) ==
    IF n = 0 THEN {<<>>}
    ELSE Texts(frags, n - 1) \cup {t \o f : t \in Texts(frags, n - 1), f \in frags}

SanLocs == {L_png, L_pdf}
SanDesc(u) == {RealDesc(<<"A">>, 1, <<u[Len(u)]>>), PlaceholderDesc(<<"A">>)}
\* the empty dict and the dicts of one key
SanDicts ==
    UNION {{f \in [D -> UNION {SanDesc(u) : u \in D}] : \A u \in D : f[u] \in SanDesc(u)}
           : D \in {{}} \cup {{u} : u \in SanLocs}}
SanMappings == {NoImages} \cup {Dict(f) : f \in SanDicts}

L_utm == <<"http", ":", "//x/p", "?", "utm_", "source=foo">>

\* the dict of test_insert_metadata_basic, the dict main builds (line 282),
\* and the latter filled in another order
SanMetadata ==
    { << <<"title", <<"Test", " ", "Title">>>>, <<"author", <<"Test", " ", "Author">>>>,
         <<"date", <<"2025-08-05">>>> >>,
      << <<"title", <<"Unknown", " ", "Title">>>>, <<"author", <<"Jane">>>>,
         <<"url", L_utm>>, <<"editor", <<"Editor">>>>, <<"date", <<"2025-08-05">>>> >>,
      << <<"date", <<"2025-08-05">>>>, <<"url", L_utm>>, <<"editor", <<"Editor">>>>,
         <<"title", <<"Unknown", " ", "Title">>>>, <<"author", <<"Jane">>>> >> }

\* the arguments insert_metadata is called with: those of the tests when it is
\* called on its own, main's locals (lines 253, 282, 283) when main calls it
ImageArgs == IF main_pc = "idle" THEN SanMappings ELSE {Dict(downloaded_images)}
MetadataArgs == IF main_pc = "idle" THEN SanMetadata ELSE {main_metadata}

(***************************************************************************)
(* download_images, lines 52-129.                                          *)
(***************************************************************************)
\* re.findall(pattern, s): the groups of the matches re.sub would replace
RECURSIVE FindAllFrom(_, _, _, _, _)
FindAllFrom(pat, g1, g2, s, i) ==
    IF i > Len(s) THEN <<>>
    ELSE LET m == Match(pat, 1, s, i)
         IN  IF m = <<>> THEN FindAllFrom(pat, g1, g2, s, i + 1)
             ELSE <<<<Group(s, m, g1), Group(s, m, g2)>>>>
                  \o FindAllFrom(pat, g1, g2, s, MatchEnd(m))

FindAll(s) == FindAllFrom(image_pattern, 4, 8, s, 1)

\* img_url.startswith("http") (line 69)
IsRemote(url) == url # <<>> /\ url[1] \in {"http", "https"}

ExtWords == {".png", ".gif", ".GIF", ".pdf", ".jpg"}
\* str.lower() on an extension
Lower(t) == IF t = ".GIF" THEN ".gif" ELSE t

\* urlparse(img_url).path: the locator up to its query ("?") or fragment
RECURSIVE UrlPath(_)
UrlPath(url) ==
    IF url = <<>> \/ Head(url) \in {"?", "#"} THEN <<>>
    ELSE <<Head(url)>> \o UrlPath(Tail(url))

\* Path(...).suffix: the extension of the last component of the path, or ""
Suffix(url) ==
    LET p == UrlPath(url)
    IN  IF Len(p) >= 2 /\ p[Len(p)] \in ExtWords THEN <<p[Len(p)]>> ELSE <<>>

\* lines 75-79: the extension of the destination file
DestExt(url) ==
    LET ext == IF Suffix(url) = <<>> THEN <<".jpg">> ELSE Suffix(url)
    IN  IF Lower(ext[1]) = ".gif" THEN <<".jpg">> ELSE ext

\* img_url.lower().endswith('.gif') (line 92)
TakesGifPath(url) == Lower(url[Len(url)]) = ".gif"

TempName(filename) == <<"temp_">> \o filename

Put(f, key, val) == [x \in DOMAIN f \cup {key} |-> IF x = key THEN val ELSE f[x]]
Remove(f, key) == [x \in DOMAIN f \ {key} |-> f[x]]
\* Path.rename: the file is moved, replacing what the new name held
Rename(f, old, new) == Put(Remove(f, old), new, f[old])

DlFrags ==
    { ImgTag(L_png, <<"A">>), ImgTag(L_png, <<"B">>),
      ImgTag(L_gifq, <<"Cat">>), ImgTag(L_GIF, <<"Cat">>), ImgTag(L_noext, <<"N">>),
      ImgTag(L_rel, <<"B">>) }

DlInit ==
    /\ dl_pc = "start"
    /\ dl_content \in Texts(DlFrags, MaxImgs)
    /\ images = <<>>
    /\ dl_i = 1
    /\ downloaded_images = <<>>
    /\ fs = <<>>
    /\ dl_log = <<>>

\* lines 59-66
DlScan ==
    /\ dl_pc = "start"
    /\ images' = FindAll(dl_content)
    /\ dl_pc' = "loop"
    /\ UNCHANGED <<dl_content, dl_i, downloaded_images, fs, dl_log, NotDl>>

Cur == images[dl_i]
CurName == FileName(dl_i, DestExt(Cur[1]))
InLoop == dl_pc = "loop" /\ dl_i <= Len(images)
Logged(outcome, via) ==
    Append(dl_log, [url |-> Cur[1], alt |-> Cur[2], i |-> dl_i, outcome |-> outcome, via |-> via])
Advance == /\ dl_i' = dl_i + 1
           /\ UNCHANGED <<dl_pc, dl_content, images, NotDl>>

\* lines 69-70: a locator that is not remote is skipped
DlSkip ==
    /\ InLoop /\ ~IsRemote(Cur[1])
    /\ Advance
    /\ UNCHANGED <<downloaded_images, fs, dl_log>>

\* DlFetchFail with an except clause that records nothing
DlFetchFail_NoPlaceholder ==
    /\ InLoop /\ IsRemote(Cur[1])
    /\ dl_log' = Logged("fetch_fail", "none")
    /\ Advance
    /\ UNCHANGED <<downloaded_images, fs>>

\* lines 88-89 raise, lines 124-127 catch
DlFetchFail ==
    /\ InLoop /\ IsRemote(Cur[1])
    /\ downloaded_images' = Put(downloaded_images, Cur[1], PlaceholderDesc(Cur[2]))
    /\ dl_log' = Logged("fetch_fail", "none")
    /\ Advance
    /\ UNCHANGED fs

\* DlStream that keeps the entry of a locator it has already seen
DlStream_KeepFirst ==
    /\ InLoop /\ IsRemote(Cur[1]) /\ ~TakesGifPath(Cur[1])
    /\ fs' = Put(fs, CurName, [kind |-> "raw", src |-> Cur[1]])
    /\ downloaded_images' =
           IF Cur[1] \in DOMAIN downloaded_images THEN downloaded_images
           ELSE Put(downloaded_images, Cur[1], RealDesc(Cur[2], dl_i, DestExt(Cur[1])))
    /\ dl_log' = Logged("ok", "stream")
    /\ Advance

\* lines 113-122: the response body is streamed to the destination
DlStream ==
    /\ InLoop /\ IsRemote(Cur[1]) /\ ~TakesGifPath(Cur[1])
    /\ fs' = Put(fs, CurName, [kind |-> "raw", src |-> Cur[1]])
    /\ downloaded_images' = Put(downloaded_images, Cur[1], RealDesc(Cur[2], dl_i, DestExt(Cur[1])))
    /\ dl_log' = Logged("ok", "stream")
    /\ Advance

\* lines 92-108, 118-122: temporary file, re-encoded as JPEG, temporary file deleted
DlConvert ==
    /\ InLoop /\ IsRemote(Cur[1]) /\ TakesGifPath(Cur[1])
    /\ fs' = Put(fs, CurName, [kind |-> "jpeg", src |-> Cur[1]])
    /\ downloaded_images' = Put(downloaded_images, Cur[1], RealDesc(Cur[2], dl_i, DestExt(Cur[1])))
    /\ dl_log' = Logged("ok", "convert")
    /\ Advance

\* DlConvertFail without the inner handler: the failure of the conversion
\* reaches the handler of lines 124-127
DlConvertFail_Propagates ==
    /\ InLoop /\ IsRemote(Cur[1]) /\ TakesGifPath(Cur[1])
    /\ fs' = Put(fs, TempName(CurName), [kind |-> "raw", src |-> Cur[1]])
    /\ downloaded_images' = Put(downloaded_images, Cur[1], PlaceholderDesc(Cur[2]))
    /\ dl_log' = Logged("conv_fail", "convert")
    /\ Advance

\* lines 92-96, 109-112, 118-122: the body is written to the temporary file,
\* the conversion raises, the temporary file is renamed to the destination
DlConvertFail ==
    /\ InLoop /\ IsRemote(Cur[1]) /\ TakesGifPath(Cur[1])
    /\ fs' = Rename(Put(fs, TempName(CurName), [kind |-> "raw", src |-> Cur[1]]),
                    TempName(CurName), CurName)
    /\ downloaded_images' = Put(downloaded_images, Cur[1], RealDesc(Cur[2], dl_i, DestExt(Cur[1])))
    /\ dl_log' = Logged("conv_fail", "convert")
    /\ Advance

\* lines 94-96 or 114-116 raise (the write fails), lines 124-127 catch; the file
\* being written may be left behind, incomplete
DlIoFail ==
    /\ InLoop /\ IsRemote(Cur[1])
    /\ LET target == IF TakesGifPath(Cur[1]) THEN TempName(CurName) ELSE CurName
       IN  fs' \in {fs, Put(fs, target, [kind |-> "partial", src |-> Cur[1]])}
    /\ downloaded_images' = Put(downloaded_images, Cur[1], PlaceholderDesc(Cur[2]))
    /\ dl_log' = Logged("io_fail", IF TakesGifPath(Cur[1]) THEN "convert" ELSE "stream")
    /\ Advance

\* line 129
DlReturn ==
    /\ dl_pc = "loop" /\ dl_i > Len(images)
    /\ dl_pc' = "done"
    /\ UNCHANGED <<dl_content, images, dl_i, downloaded_images, fs, dl_log, NotDl>>

DlNext ==
    \/ DlScan \/ DlSkip \/ DlFetchFail \/ DlStream \/ DlConvert
    \/ DlConvertFail \/ DlIoFail \/ DlReturn

(***************************************************************************)
(* insert_metadata as a state machine.                                     *)
(***************************************************************************)
SanInit ==
    /\ san_pc = "ready"
    /\ san_in \in Texts(SanFrags, MaxFrags)
    /\ md_file = san_in
    /\ san_images = NoImages
    /\ metadata = <<>>
    /\ content = <<>>
    /\ san_assets = <<>>

\* insert_metadata(md_file, metadata, downloaded_images), lines 132-173: the
\* file is read, rules 1-4 rewrite `content`
InsertMetadata_Assets ==
    /\ san_pc = "ready"
    /\ \E dl \in ImageArgs :
          /\ san_images' = dl
          /\ content' = RuleAssets(RuleLinks(md_file), dl)
    /\ san_assets' = content'
    /\ san_pc' = "assets"
    /\ UNCHANGED <<san_in, md_file, metadata, NotSan>>

\* lines 177-185
InsertMetadata_Tracking ==
    /\ san_pc = "assets"
    /\ content' = RuleTracking(content)
    /\ san_pc' = "tracked"
    /\ UNCHANGED <<san_in, md_file, san_images, san_assets, metadata, NotSan>>

\* lines 188-197: the last rules, then the header and the text are written
\* (metadata is read here only)
InsertMetadata_Write ==
    /\ san_pc = "tracked"
    /\ content' = RuleDivs(RuleAttributes(content))
    /\ \E md \in MetadataArgs :
          /\ metadata' = md
          /\ md_file' = yaml_header(md) \o <<"\n">> \o content'
    /\ san_pc' = "done"
    /\ UNCHANGED <<san_in, san_images, san_assets, NotSan>>

SanNext == InsertMetadata_Assets \/ InsertMetadata_Tracking \/ InsertMetadata_Write

(***************************************************************************)
(* extract_metadata, lines 25-44.  A string is a sequence of characters:   *)
(* a word ("Hi", "Unknown") is a run of printable ASCII characters other   *)
(* than the space, " " is the space, "\t" is white space outside 0x20-0x7E *)
(* and "e'" any other character outside 0x20-0x7E (a smart quote, an       *)
(* emoji).                                                                 *)
(***************************************************************************)
Chars == {"Hi", " ", "\t", "e'"}
IsSpace(c) == c \in {" ", "\t"}
IsPrintable(c) == c \notin {"\t", "e'"}

None == [none |-> TRUE, s |-> <<>>]
Some(str) == [none |-> FALSE, s |-> str]

\* str.strip()
RECURSIVE LStrip(_)
LStrip(str) == IF str # <<>> /\ IsSpace(Head(str)) THEN LStrip(Tail(str)) ELSE str
RECURSIVE RStrip(_)
RStrip(str) ==
    IF str # <<>> /\ IsSpace(str[Len(str)]) THEN RStrip(SubSeq(str, 1, Len(str) - 1)) ELSE str
Strip(str) == RStrip(LStrip(str))

\* re.sub(r"[^\x20-\x7E]", "", s)
PrintableOnly(str) == SelectSeq(str, IsPrintable)

\* Clean without the second trim
Clean_NoTrim(str) == PrintableOnly(str)

\* lines 41-42
Clean(str) == Strip(PrintableOnly(str))

UnknownTitle == <<"Unknown", " ", "Title">>
UnknownAuthor == <<"Unknown", " ", "Author">>

\* Tag.string: the single child if it is a string, the single child's .string
\* if it is a tag, None with no child or several
TagString(contents) == IF Len(contents) # 1 THEN None ELSE contents[1].str

\* soup.find("meta", attrs={attr: "author"}): the position of the first such
\* element, 0 (None) when there is none
RECURSIVE FindFrom(_, _, _)
FindFrom(metas, attr, k) ==
    IF k > Len(metas) THEN 0
    ELSE IF metas[k].attr = attr /\ metas[k].val = "author" THEN k
    ELSE FindFrom(metas, attr, k + 1)
Find(metas, attr) == FindFrom(metas, attr, 1)

\* line 30: soup.title.string.strip() raises AttributeError when .string is None
TitleRaises(doc) == doc.title.present /\ TagString(doc.title.contents).none

\* ExtractTitle with the fallback literal lost
ExtractTitle_NoFallback(doc) ==
    IF doc.title.present THEN Strip(TagString(doc.title.contents).s) ELSE <<>>

\* line 30
ExtractTitle(doc) ==
    IF doc.title.present THEN Strip(TagString(doc.title.contents).s) ELSE UnknownTitle

\* lines 33-36: a Tag is true whatever it holds, so `or` takes the second
\* lookup only when the first found nothing
ExtractAuthor(doc) ==
    LET n == Find(doc.metas, "name")
        author_meta == IF n # 0 THEN n ELSE Find(doc.metas, "property")
    IN  IF author_meta # 0
           /\ ~doc.metas[author_meta].content.none
           /\ doc.metas[author_meta].content.s # <<>>
        THEN Strip(doc.metas[author_meta].content.s)
        ELSE UnknownAuthor

RECURSIVE Strings(_, _)
Strings(alphabet, n) ==
    IF n = 0 THEN {<<>>}
    ELSE Strings(alphabet, n - 1)
         \cup {str \o <<c>> : str \in Strings(alphabet, n - 1), c \in alphabet}

TextChild(str) == [kind |-> "text", str |-> Some(str)]
TagChild(opt) == [kind |-> "tag", str |-> opt]

TitleContents ==
    {<<>>} \cup {<<TextChild(str)>> : str \in Strings(Chars, MaxStr) \ {<<>>}}
    \cup {<<TagChild(None)>>, <<TagChild(Some(<<"Hi">>))>>,
          <<TextChild(<<"Hi">>), TagChild(Some(<<"Hi">>))>>,
          <<TextChild(<<"e'", " ", "Hi">>)>>}
TitleElems ==
    {[present |-> FALSE, contents |-> <<>>]}
    \cup {[present |-> TRUE, contents |-> c] : c \in TitleContents}

ContentAttrs == {None, Some(<<>>), Some(<<" ">>), Some(<<" ", "e'", "Hi", " ">>)}
MetaElems ==
    {[attr |-> a, val |-> v, content |-> c] :
        a \in {"name", "property"}, v \in {"author", "viewport"}, c \in ContentAttrs}

RECURSIVE Lists(_, _)
Lists(elems, n) ==
    IF n = 0 THEN {<<>>}
    ELSE Lists(elems, n - 1) \cup {l \o <<e>> : l \in Lists(elems, n - 1), e \in elems}

MetaInit ==
    /\ meta_pc = "ready"
    /\ html \in {[title |-> t, metas |-> ms] : t \in TitleElems, ms \in Lists(MetaElems, MaxMetas)}
    /\ title = <<>>
    /\ author = <<>>

\* extract_metadata(html_file), lines 25-44
ExtractMetadata ==
    /\ meta_pc = "ready"
    /\ IF TitleRaises(html)
       THEN meta_pc' = "raised" /\ UNCHANGED <<title, author>>
       ELSE /\ meta_pc' = "returned"
            /\ title' = Clean(ExtractTitle(html))
            /\ author' = Clean(ExtractAuthor(html))
    /\ UNCHANGED <<html, NotMeta>>

MetaNext == ExtractMetadata

(***************************************************************************)
(* latex_compiler.py: LaTeXCompiler.  A file is [dir, name]; a name is its *)
(* base word followed by its dot-extensions, <<"doc", ".tex">>.            *)
(***************************************************************************)
File(dir, name) == [dir |-> dir, name |-> name]
\* Path.suffix and Path.stem
TexSuffix(name) == IF Len(name) >= 2 THEN name[Len(name)] ELSE ""
TexStem(name) == IF Len(name) >= 2 THEN SubSeq(name, 1, Len(name) - 1) ELSE name
\* str.lower() on a suffix
LowerSuffix(x) == IF x = ".TEX" THEN ".tex" ELSE x
\* tex_file.parent / f"{tex_file.stem}{ext}"
Sibling(f, ext) == File(f.dir, TexStem(f.name) \o <<ext>>)

\* line 90
aux_extensions == <<".aux", ".log", ".out", ".toc", ".nav", ".snm", ".fls", ".fdb_latexmk">>
Range(q) == {q[k] : k \in 1..Len(q)}

\* cleanup_aux_files with a list that names the source file too
CleanupTargets_WithTex(f, keep_pdf) ==
    {Sibling(f, ext) : ext \in Range(aux_extensions) \cup {".tex"}}
    \cup (IF keep_pdf THEN {} ELSE {Sibling(f, ".pdf")})

\* lines 89-96: the files cleanup_aux_files tries to remove
CleanupTargets(f, keep_pdf) ==
    {Sibling(f, ext) : ext \in Range(aux_extensions)}
    \cup (IF keep_pdf THEN {} ELSE {Sibling(f, ".pdf")})

\* lines 95-102: each target that exists is unlinked; an unlink that raises
\* is reported and the file stays
CleanupOutcomes(files, f, keep_pdf) ==
    {files \ gone : gone \in SUBSET (CleanupTargets(f, keep_pdf) \cap files)}

TexUniverse ==
    { File(".", <<"doc", ".tex">>), File(".", <<"doc", ".aux">>), File(".", <<"doc", ".log">>),
      File(".", <<"doc", ".pdf">>), File(".", <<"doc", ".bib">>), File(".", <<"other", ".aux">>),
      File("sub", <<"doc", ".log">>), File(".", <<"notes", ".txt">>), File(".", <<"up", ".TEX">>) }
TexPaths ==
    { File(".", <<"doc", ".tex">>), File(".", <<"notes", ".txt">>), File(".", <<"up", ".TEX">>) }

TexInit ==
    /\ tex_pc = "ready"
    /\ tex_call = [op |-> "none"]
    /\ tex_fs \in SUBSET TexUniverse
    /\ tex_fs0 = tex_fs
    /\ tex_log = <<>>
    /\ tex_ret = "none"

CompileCall(f, cleanup, two_pass) ==
    [op |-> "compile_document", tex_file |-> f, cleanup |-> cleanup, two_pass |-> two_pass]

\* agent.py, lines 240-241: slug.tex and slug.pdf
MainTex == File(".", <<"doc", ".tex">>)
MainPdf == File(".", <<"doc", ".pdf">>)

\* the arguments compile_document is called with; main (agent.py, line 303)
\* passes tex_file and leaves the defaults
CompileArgs ==
    IF main_pc = "idle"
    THEN {CompileCall(f, c, t) : f \in TexPaths, c \in BOOLEAN, t \in BOOLEAN}
    ELSE {CompileCall(MainTex, TRUE, TRUE)}

\* compile_document, lines 118-122: the path does not exist
CompileNotFound ==
    /\ tex_pc = "ready"
    /\ \E call \in CompileArgs : call.tex_file \notin tex_fs /\ tex_call' = call
    /\ tex_ret' = FALSE
    /\ tex_pc' = "returned"
    /\ UNCHANGED <<tex_fs, tex_fs0, tex_log, NotTex>>

\* compile_document, lines 124-126: the path has another extension
CompileWrongExt ==
    /\ tex_pc = "ready"
    /\ \E call \in CompileArgs :
          /\ call.tex_file \in tex_fs
          /\ LowerSuffix(TexSuffix(call.tex_file.name)) # ".tex"
          /\ tex_call' = call
    /\ tex_ret' = FALSE
    /\ tex_pc' = "returned"
    /\ UNCHANGED <<tex_fs, tex_fs0, tex_log, NotTex>>

\* compile_document, lines 118-132: both tests pass
CompileStart ==
    /\ tex_pc = "ready"
    /\ \E call \in CompileArgs :
          /\ call.tex_file \in tex_fs
          /\ LowerSuffix(TexSuffix(call.tex_file.name)) = ".tex"
          /\ tex_call' = call
    /\ tex_pc' = "pass1"
    /\ UNCHANGED <<tex_fs, tex_fs0, tex_log, tex_ret, NotTex>>

InPass == tex_pc \in {"pass1", "pass2"}
Probe(outcome) == [cmd |-> "xelatex --version", outcome |-> outcome]
Pass(outcome) == [cmd |-> "xelatex", outcome |-> outcome]

\* run_xelatex, lines 51-52 (check_xelatex, 41-47): xelatex is not there
PassUnavailable ==
    /\ InPass
    /\ tex_log' = Append(tex_log, Probe("fail"))
    /\ tex_ret' = FALSE
    /\ tex_pc' = "returned"
    /\ UNCHANGED <<tex_call, tex_fs, tex_fs0, NotTex>>

\* run_xelatex, lines 51-68, and lines 137, 144-148: xelatex exits with 0,
\* having written its files (a PDF, or none if the document has no page)
PassSucceeds ==
    /\ InPass
    /\ tex_log' = tex_log \o <<Probe("ok"), Pass("exit 0")>>
    /\ \E out \in {{".aux", ".log"}, {".aux", ".log", ".pdf"}} :
          tex_fs' = tex_fs \cup {Sibling(tex_call.tex_file, ext) : ext \in out}
    /\ tex_pc' = IF tex_pc = "pass1" /\ tex_call.two_pass THEN "pass2" ELSE "check_pdf"
    /\ UNCHANGED <<tex_call, tex_fs0, tex_ret, NotTex>>

\* PassFails with the cleanup run on the way out
PassFails_Cleans ==
    /\ InPass
    /\ \E how \in {"exit 1", "timeout", "error"} :
          tex_log' = tex_log \o <<Probe("ok"), Pass(how)>>
    /\ tex_fs' = tex_fs \ CleanupTargets(tex_call.tex_file, TRUE)
    /\ tex_ret' = FALSE
    /\ tex_pc' = "returned"
    /\ UNCHANGED <<tex_call, tex_fs0, NotTex>>

\* run_xelatex, lines 69-83, and lines 137-141, 148-152: xelatex exits with
\* another code, runs into the timeout, or the call raises; whatever it wrote
\* stays
PassFails ==
    /\ InPass
    /\ \E how \in {"exit 1", "timeout", "error"} :
          tex_log' = tex_log \o <<Probe("ok"), Pass(how)>>
    /\ \E out \in {{}, {".log"}, {".aux", ".log"}} :
          tex_fs' = tex_fs \cup {Sibling(tex_call.tex_file, ext) : ext \in out}
    /\ tex_ret' = FALSE
    /\ tex_pc' = "returned"
    /\ UNCHANGED <<tex_call, tex_fs0, NotTex>>

\* CheckPdf that does not look for the PDF
CheckPdf_Unchecked ==
    /\ tex_pc = "check_pdf"
    /\ IF tex_call.cleanup
       THEN tex_pc' = "cleanup" /\ UNCHANGED tex_ret
       ELSE tex_pc' = "returned" /\ tex_ret' = TRUE
    /\ UNCHANGED <<tex_call, tex_fs, tex_fs0, tex_log, NotTex>>

\* compile_document, lines 155-163 (and 167 without cleanup)
CheckPdf ==
    /\ tex_pc = "check_pdf"
    /\ IF Sibling(tex_call.tex_file, ".pdf") \notin tex_fs
       THEN tex_pc' = "returned" /\ tex_ret' = FALSE
       ELSE IF tex_call.cleanup
       THEN tex_pc' = "cleanup" /\ UNCHANGED tex_ret
       ELSE tex_pc' = "returned" /\ tex_ret' = TRUE
    /\ UNCHANGED <<tex_call, tex_fs, tex_fs0, tex_log, NotTex>>

Cleaned(f, keep_pdf) == [cmd |-> "cleanup_aux_files", tex_file |-> f, keep_pdf |-> keep_pdf]

\* compile_document, lines 163-167: cleanup_aux_files(tex_file, keep_pdf=True)
CompileCleanup ==
    /\ tex_pc = "cleanup"
    /\ tex_fs' \in CleanupOutcomes(tex_fs, tex_call.tex_file, TRUE)
    /\ tex_log' = Append(tex_log, Cleaned(tex_call.tex_file, TRUE))
    /\ tex_ret' = TRUE
    /\ tex_pc' = "returned"
    /\ UNCHANGED <<tex_call, tex_fs0, NotTex>>

\* cleanup_aux_files(tex_file, keep_pdf) called on its own, lines 87-102
CleanupAuxFiles ==
    /\ tex_pc = "ready"
    /\ \E f \in TexPaths, keep_pdf \in BOOLEAN :
          /\ tex_call' = [op |-> "cleanup_aux_files", tex_file |-> f, keep_pdf |-> keep_pdf]
          /\ tex_fs' \in CleanupOutcomes(tex_fs, f, keep_pdf)
          /\ tex_log' = Append(tex_log, Cleaned(f, keep_pdf))
    /\ tex_pc' = "returned"
    /\ UNCHANGED <<tex_fs0, tex_ret, NotTex>>

TexNext ==
    \/ CompileNotFound \/ CompileWrongExt \/ CompileStart
    \/ PassUnavailable \/ PassSucceeds \/ PassFails
    \/ CheckPdf \/ CompileCleanup \/ CleanupAuxFiles

(***************************************************************************)
(* agent.py: main, lines 229-321.  main calls the functions above one      *)
(* after the other: it sets the callee to work (meta_pc, dl_pc, san_pc,    *)
(* tex_pc), the callee's own actions run, and main goes on when the callee *)
(* has returned.  An exception no handler of main catches ends main        *)
(* ("raised").                                                             *)
(***************************************************************************)
\* the pages requests.get may deliver, as BeautifulSoup parses them
MainPages ==
    { [title |-> [present |-> FALSE, contents |-> <<>>], metas |-> <<>>],
      [title |-> [present |-> TRUE, contents |-> <<TextChild(<<"Hi">>)>>],
       metas |-> <<[attr |-> "name", val |-> "author", content |-> Some(<<"Hi">>)]>>],
      [title |-> [present |-> TRUE, contents |-> <<>>], metas |-> <<>>] }

\* the texts pandoc may write to md_file
MainTexts ==
    { <<"t">>,
      ImgTag(L_png, <<"A">>),
      ImgTag(L_rel, <<"B">>) \o ImgTag(L_GIF, <<"Cat">>),
      ImgTag(L_png, <<"A">>) \o <<"(", "//x/p", "?", "_hsenc=", "abc", "&", "utm_", "x", ")">>
          \o ImgTag(L_noext, <<"N">>) }

\* what the user types at the five prompts of lines 261-280 ("" keeps the value)
MainAnswers ==
    { [k \in {"title", "author", "editor", "date", "url"} |-> <<>>],
      [k \in {"title", "author", "editor", "date", "url"} |->
          IF k = "title" THEN <<"New">> ELSE <<>>] }

Stage(name) == Append(main_log, name)
Tool(name, outcome) == Append(main_tools, [tool |-> name, outcome |-> outcome])

MainInit ==
    /\ main_pc = "start"
    /\ main_log = <<>>
    /\ main_tools = <<>>
    /\ main_metadata = <<>>

\* lines 230-232: the usage message, sys.exit(1)
MainUsage ==
    /\ main_pc = "start"
    /\ main_pc' = "exited"
    /\ UNCHANGED <<main_log, main_tools, main_metadata, san_vars, dl_vars, meta_vars, tex_vars>>

\* lines 234-248, fetch_html (17-22): the page is fetched and written
MainFetch ==
    /\ main_pc = "start"
    /\ main_log' = Stage("fetch_html")
    /\ main_tools' = Tool("requests.get", "ok")
    /\ html' \in MainPages
    /\ main_pc' = "fetched"
    /\ UNCHANGED <<main_metadata, san_vars, dl_vars, meta_pc, title, author, tex_vars>>

\* line 248, fetch_html (19-20): requests.get or raise_for_status raises
MainFetchFails ==
    /\ main_pc = "start"
    /\ main_log' = Stage("fetch_html")
    /\ main_tools' = Tool("requests.get", "failed")
    /\ main_pc' = "raised"
    /\ UNCHANGED <<main_metadata, san_vars, dl_vars, meta_vars, tex_vars>>

\* line 249: extract_metadata is called
MainCallExtract ==
    /\ main_pc = "fetched"
    /\ main_log' = Stage("extract_metadata")
    /\ meta_pc' = "ready"
    /\ main_pc' = "extracting"
    /\ UNCHANGED <<main_tools, main_metadata, san_vars, dl_vars, html, title, author, tex_vars>>

\* line 249: extract_metadata has returned
MainExtractReturned ==
    /\ main_pc = "extracting" /\ meta_pc = "returned"
    /\ main_pc' = "extracted"
    /\ UNCHANGED <<main_log, main_tools, main_metadata, san_vars, dl_vars, meta_vars, tex_vars>>

\* line 249: extract_metadata has raised
MainExtractRaised ==
    /\ main_pc = "extracting" /\ meta_pc = "raised"
    /\ main_pc' = "raised"
    /\ UNCHANGED <<main_log, main_tools, main_metadata, san_vars, dl_vars, meta_vars, tex_vars>>

\* MainConvertFails with check=False: the exit code of pandoc is not looked at
MainConvertFails_Ignored ==
    /\ main_pc = "extracted"
    /\ main_log' = Stage("convert_to_markdown")
    /\ main_tools' = Tool("pandoc -t markdown", "failed")
    /\ main_pc' = "converted"
    /\ UNCHANGED <<main_metadata, san_vars, dl_vars, meta_vars, tex_vars>>

\* line 250, convert_to_markdown (47-49): pandoc exits with 0
MainConvert ==
    /\ main_pc = "extracted"
    /\ main_log' = Stage("convert_to_markdown")
    /\ main_tools' = Tool("pandoc -t markdown", "ok")
    /\ md_file' \in MainTexts
    /\ main_pc' = "converted"
    /\ UNCHANGED <<main_metadata, san_pc, san_in, content, san_images, san_assets, metadata,
                   dl_vars, meta_vars, tex_vars>>

\* line 250, convert_to_markdown (49): pandoc exits with another code,
\* subprocess.run(check=True) raises
MainConvertFails ==
    /\ main_pc = "extracted"
    /\ main_log' = Stage("convert_to_markdown")
    /\ main_tools' = Tool("pandoc -t markdown", "failed")
    /\ main_pc' = "raised"
    /\ UNCHANGED <<main_metadata, san_vars, dl_vars, meta_vars, tex_vars>>

\* line 253: download_images is called
MainCallLocalize ==
    /\ main_pc = "converted"
    /\ main_log' = Stage("download_images")
    /\ dl_pc' = "start"
    /\ dl_content' = md_file
    /\ main_pc' = "localizing"
    /\ UNCHANGED <<main_tools, main_metadata, san_vars, images, dl_i, downloaded_images, fs,
                   dl_log, meta_vars, tex_vars>>

\* line 253: download_images has returned
MainLocalizeReturned ==
    /\ main_pc = "localizing" /\ dl_pc = "done"
    /\ main_pc' = "localized"
    /\ UNCHANGED <<main_log, main_tools, main_metadata, san_vars, dl_vars, meta_vars, tex_vars>>

\* lines 255-282: the prompts are answered, the metadata dict is built
MainPrompt ==
    /\ main_pc = "localized"
    /\ \E ans \in MainAnswers :
          LET Pick(key, val) == IF ans[key] # <<>> THEN ans[key] ELSE val
          IN  main_metadata' =
                  << <<"title", Pick("title", title)>>, <<"author", Pick("author", author)>>,
                     <<"url", Pick("url", L_utm)>>, <<"editor", Pick("editor", <<"Editor">>)>>,
                     <<"date", Pick("date", <<"2025-08-05">>)>> >>
    /\ main_pc' = "confirmed"
    /\ UNCHANGED <<main_log, main_tools, san_vars, dl_vars, meta_vars, tex_vars>>

\* lines 261-278: input() raises EOFError (no terminal)
MainPromptFails ==
    /\ main_pc = "localized"
    /\ main_pc' = "raised"
    /\ UNCHANGED <<main_log, main_tools, main_metadata, san_vars, dl_vars, meta_vars, tex_vars>>

\* MainCallSanitize placed before the call of download_images
MainCallSanitize_Early ==
    /\ main_pc = "converted"
    /\ main_log' = Stage("insert_metadata")
    /\ main_metadata' = << <<"title", title>> >>
    /\ san_pc' = "ready"
    /\ san_in' = md_file
    /\ main_pc' = "sanitizing"
    /\ UNCHANGED <<main_tools, md_file, content, san_images, san_assets, metadata,
                   dl_vars, meta_vars, tex_vars>>

\* line 283: insert_metadata is called
MainCallSanitize ==
    /\ main_pc = "confirmed"
    /\ main_log' = Stage("insert_metadata")
    /\ san_pc' = "ready"
    /\ san_in' = md_file
    /\ main_pc' = "sanitizing"
    /\ UNCHANGED <<main_tools, main_metadata, md_file, content, san_images, san_assets, metadata,
                   dl_vars, meta_vars, tex_vars>>

\* line 283: insert_metadata has returned
MainSanitizeReturned ==
    /\ main_pc = "sanitizing" /\ san_pc = "done"
    /\ main_pc' = "sanitized"
    /\ UNCHANGED <<main_log, main_tools, main_metadata, san_vars, dl_vars, meta_vars, tex_vars>>

\* line 284, generate_pdf (200-219): pandoc writes the .tex file
MainTypesetTex ==
    /\ main_pc = "sanitized"
    /\ main_log' = Stage("generate_pdf")
    /\ main_tools' = Tool("pandoc -o tex", "ok")
    /\ tex_fs' = tex_fs \cup {MainTex}
    /\ main_pc' = "tex_written"
    /\ UNCHANGED <<main_metadata, san_vars, dl_vars, meta_vars, tex_pc, tex_call, tex_fs0,
                   tex_log, tex_ret>>

\* generate_pdf (206): pandoc exits with another code
MainTypesetTexFails ==
    /\ main_pc = "sanitized"
    /\ main_log' = Stage("generate_pdf")
    /\ main_tools' = Tool("pandoc -o tex", "failed")
    /\ main_pc' = "raised"
    /\ UNCHANGED <<main_metadata, san_vars, dl_vars, meta_vars, tex_vars>>

\* generate_pdf (221-226): pandoc writes the PDF with xelatex
MainTypesetPdf ==
    /\ main_pc = "tex_written"
    /\ main_tools' = Tool("pandoc --pdf-engine=xelatex", "ok")
    /\ tex_fs' = tex_fs \cup {MainPdf}
    /\ main_pc' = "typeset"
    /\ UNCHANGED <<main_log, main_metadata, san_vars, dl_vars, meta_vars, tex_pc, tex_call,
                   tex_fs0, tex_log, tex_ret>>

\* generate_pdf (223-226): pandoc exits with another code
MainTypesetPdfFails ==
    /\ main_pc = "tex_written"
    /\ main_tools' = Tool("pandoc --pdf-engine=xelatex", "failed")
    /\ main_pc' = "raised"
    /\ UNCHANGED <<main_log, main_metadata, san_vars, dl_vars, meta_vars, tex_vars>>

\* lines 290-295, 317-321: the answer is not "y" (or there is none)
MainSkipCompile ==
    /\ main_pc = "typeset"
    /\ main_pc' = "returned"
    /\ UNCHANGED <<main_log, main_tools, main_metadata, san_vars, dl_vars, meta_vars, tex_vars>>

\* lines 295-306: the answer is "y", compile_document(tex_file) is called
MainCallCompile ==
    /\ main_pc = "typeset"
    /\ tex_pc' = "ready"
    /\ tex_fs0' = tex_fs
    /\ main_pc' = "compiling"
    /\ UNCHANGED <<main_log, main_tools, main_metadata, san_vars, dl_vars, meta_vars,
                   tex_call, tex_fs, tex_log, tex_ret>>

\* lines 306-321: compile_document has returned, True or False
MainCompileReturned ==
    /\ main_pc = "compiling" /\ tex_pc = "returned"
    /\ main_pc' = "returned"
    /\ UNCHANGED <<main_log, main_tools, main_metadata, san_vars, dl_vars, meta_vars, tex_vars>>

MainNext ==
    \/ MainUsage \/ MainFetch \/ MainFetchFails
    \/ MainCallExtract \/ ExtractMetadata \/ MainExtractReturned \/ MainExtractRaised
    \/ MainConvert \/ MainConvertFails
    \/ MainCallLocalize \/ DlNext \/ MainLocalizeReturned
    \/ MainPrompt \/ MainPromptFails
    \/ MainCallSanitize \/ SanNext \/ MainSanitizeReturned
    \/ MainTypesetTex \/ MainTypesetTexFails \/ MainTypesetPdf \/ MainTypesetPdfFails
    \/ MainSkipCompile \/ MainCallCompile
    \/ CompileStart \/ PassUnavailable \/ PassSucceeds \/ PassFails \/ CheckPdf \/ CompileCleanup
    \/ MainCompileReturned

(***************************************************************************)
(* The specifications: one per function, the others at rest.               *)
(***************************************************************************)
SanIdle ==
    /\ san_pc = "idle" /\ san_in = <<>> /\ content = <<>> /\ md_file = <<>>
    /\ san_images = NoImages /\ metadata = <<>>
    /\ san_assets = <<>>

DlIdle ==
    /\ dl_pc = "idle" /\ dl_content = <<>> /\ images = <<>> /\ dl_i = 1
    /\ downloaded_images = <<>> /\ fs = <<>> /\ dl_log = <<>>

MetaIdle == meta_pc = "idle" /\ html = <<>> /\ title = <<>> /\ author = <<>>

TexIdle ==
    /\ tex_pc = "idle" /\ tex_call = [op |-> "none"] /\ tex_fs = {} /\ tex_fs0 = {}
    /\ tex_log = <<>> /\ tex_ret = "none"

MainIdle == main_pc = "idle" /\ main_log = <<>> /\ main_tools = <<>> /\ main_metadata = <<>>

InitSan == SanInit /\ DlIdle /\ MetaIdle /\ TexIdle /\ MainIdle
SpecSan == InitSan /\ [][SanNext]_vars

InitDl == DlInit /\ SanIdle /\ MetaIdle /\ TexIdle /\ MainIdle
SpecDl == InitDl /\ [][DlNext]_vars

InitMeta == MetaInit /\ SanIdle /\ DlIdle /\ TexIdle /\ MainIdle
SpecMeta == InitMeta /\ [][MetaNext]_vars

InitTex == TexInit /\ SanIdle /\ DlIdle /\ MetaIdle /\ MainIdle
SpecTex == InitTex /\ [][TexNext]_vars

\* main runs; every function is at rest until main calls it
InitMain == MainInit /\ SanIdle /\ DlIdle /\ MetaIdle /\ TexIdle
SpecMain == InitMain /\ [][MainNext]_vars

(***************************************************************************)
(* Properties of extract_metadata (SpecMeta).                              *)
(***************************************************************************)
\* C8: markup without a title element makes extract_metadata return, with the
\* title exactly "Unknown Title", whatever the meta elements are.
C8_NoTitleElement ==
    (meta_pc # "ready" /\ ~html.title.present)
        => (meta_pc = "returned" /\ title = UnknownTitle)

C8_Witness ==
    /\ meta_pc = "returned" /\ ~html.title.present
    /\ Find(html.metas, "name") # 0 /\ author = <<"Hi">> /\ title = UnknownTitle

\* C9: extract_metadata never fails, and the title is "Unknown Title" whenever
\* the title element's text is absent or empty.
TitleTextAbsent(doc) ==
    \/ ~doc.title.present
    \/ TagString(doc.title.contents).none
    \/ TagString(doc.title.contents).s = <<>>

C9_NeverFails ==
    /\ meta_pc # "raised"
    /\ (meta_pc = "returned" /\ TitleTextAbsent(html)) => title = UnknownTitle

\* C10: the author is the trimmed content of the first of the lookups
\* name=author, property=author whose content is non-empty, else "Unknown Author".
HasContent(doc, k) ==
    k # 0 /\ ~doc.metas[k].content.none /\ doc.metas[k].content.s # <<>>

FirstNonEmptyLookup(doc) ==
    LET n == Find(doc.metas, "name")
        q == Find(doc.metas, "property")
    IN  IF HasContent(doc, n) THEN Strip(doc.metas[n].content.s)
        ELSE IF HasContent(doc, q) THEN Strip(doc.metas[q].content.s)
        ELSE UnknownAuthor

C10_FirstNonEmptyLookup ==
    meta_pc = "returned" => author = Clean(FirstNonEmptyLookup(html))

\* C11: both values extract_metadata returns hold only characters of
\* 0x20-0x7E and neither starts nor ends with white space, whatever the
\* title and the author content held.
IsClean(str) ==
    /\ \A k \in 1..Len(str) : IsPrintable(str[k])
    /\ str # <<>> => (~IsSpace(str[1]) /\ ~IsSpace(str[Len(str)]))

C11_PrintableAndTrimmed ==
    meta_pc = "returned" => (IsClean(title) /\ IsClean(author))

\* a title whose white space is laid bare by the filter, an author with a
\* character outside the range
C11_Witness ==
    /\ meta_pc = "returned"
    /\ html.title.present /\ html.title.contents = <<TextChild(<<"e'", " ", "Hi">>)>>
    /\ title = <<"Hi">>
    /\ \E k \in 1..Len(html.metas) :
          /\ k = Find(html.metas, "name")
          /\ html.metas[k].content = Some(<<" ", "e'", "Hi", " ">>)
    /\ author = <<"Hi">>

(***************************************************************************)
(* Properties of download_images (SpecDl).                                 *)
(***************************************************************************)
RemoteHits == {k \in 1..Len(images) : IsRemote(images[k][1])}
RemoteLocs == {images[k][1] : k \in RemoteHits}
Occurrences(u) == {k \in RemoteHits : images[k][1] = u}
Fetches(u) == {k \in 1..Len(dl_log) : dl_log[k].url = u}
Last(S) == CHOOSE k \in S : \A j \in S : j <= k
First(S) == CHOOSE k \in S : \A j \in S : k <= j
Failed(e) == e.outcome \in {"fetch_fail", "io_fail"}
IsPlaceholder(d) == d.filename = Placeholder
Placeholders == {u \in DOMAIN downloaded_images : IsPlaceholder(downloaded_images[u])}

\* C3 as stated: every remote locator has an entry, and a locator is mapped to
\* the placeholder exactly when a failure happened while it was processed.
C3_FailingLocatorIsPlaceholder ==
    dl_pc = "done" =>
        /\ DOMAIN downloaded_images = RemoteLocs
        /\ \A u \in RemoteLocs :
              (\E k \in Fetches(u) : Failed(dl_log[k])) <=> u \in Placeholders

\* C3 as amended: a failure never ends the pass (every remote hit is processed
\* and the function returns), every distinct remote locator has an entry, and
\* the entry is the placeholder, with the alt text of the hit, exactly when the
\* processing of the locator's last hit failed; so with N distinct locators of
\* which k fail on their last hit there are N entries, k of them placeholders.
C3_LastFailureIsPlaceholder ==
    dl_pc = "done" =>
        /\ Len(dl_log) = Cardinality(RemoteHits)
        /\ DOMAIN downloaded_images = RemoteLocs
        /\ \A u \in RemoteLocs :
              LET e == dl_log[Last(Fetches(u))]
              IN  IF Failed(e)
                  THEN downloaded_images[u] = PlaceholderDesc(e.alt)
                  ELSE /\ ~IsPlaceholder(downloaded_images[u])
                       /\ downloaded_images[u].alt = e.alt
        /\ Cardinality(Placeholders)
              = Cardinality({u \in RemoteLocs : Failed(dl_log[Last(Fetches(u))])})

\* one locator failed, and a different locator processed after it was downloaded
C3_Witness ==
    /\ dl_pc = "done"
    /\ \E j, k \in 1..Len(dl_log) :
          /\ j < k /\ dl_log[j].url # dl_log[k].url
          /\ Failed(dl_log[j]) /\ dl_log[j].url \in Placeholders
          /\ dl_log[k].outcome = "ok" /\ dl_log[k].url \notin Placeholders
    /\ Cardinality(RemoteLocs) = 3 /\ Cardinality(Placeholders) = 1

\* C5: a downloaded locator's file is {slug}_image_{n}{ext}, n the 1-based
\* position of the locator among the distinct remote locators in document
\* order (ext as lines 75-79 derive it).
PosAmongDistinctRemote(u) ==
    Cardinality({v \in RemoteLocs : First(Occurrences(v)) <= First(Occurrences(u))})

C5_NumberedAmongDistinctRemote ==
    dl_pc = "done" =>
        \A u \in RemoteLocs \ Placeholders :
            downloaded_images[u].filename = FileName(PosAmongDistinctRemote(u), DestExt(u))

\* C6 as stated: a remote locator is fetched at most once, however often it
\* occurs in the document.
C6_FetchedAtMostOnce ==
    \A u \in RemoteLocs : Cardinality(Fetches(u)) <= 1

\* C6 as amended: a remote locator is fetched once per occurrence and its
\* entry written each time, the later write replacing the earlier; the mapping
\* returned has one entry per distinct locator, the descriptor of its last
\* occurrence, and substitution gives every occurrence that descriptor's path.
C6_OneEntryPerLocator ==
    dl_pc = "done" =>
        /\ DOMAIN downloaded_images = RemoteLocs
        /\ \A u \in RemoteLocs :
              LET k == Last(Occurrences(u))
              IN  /\ Cardinality(Fetches(u)) = Cardinality(Occurrences(u))
                  /\ downloaded_images[u] \in
                        {RealDesc(images[k][2], k, DestExt(u)), PlaceholderDesc(images[k][2])}
                  /\ \A j \in Occurrences(u) :
                        replace_figure(u, images[j][2], Dict(downloaded_images))
                            = MdImage(images[j][2], downloaded_images[u].path)

C6_Witness ==
    /\ dl_pc = "done"
    /\ \E u \in RemoteLocs :
          /\ Cardinality(Occurrences(u)) = 2 /\ Cardinality(Fetches(u)) = 2
          /\ u \notin Placeholders
          /\ downloaded_images[u].path = <<"img/">> \o FileName(3, <<".png">>)

\* C7: a locator whose path suffix is .gif (in any case, query string or not)
\* and whose download succeeds is written as a .jpg that holds the re-encoded
\* JPEG, by way of the temporary file.
HasGifSuffix(url) == Suffix(url) # <<>> /\ Lower(Suffix(url)[1]) = ".gif"

C7_GifIsConverted ==
    \A k \in 1..Len(dl_log) :
        LET e == dl_log[k]
            name == FileName(e.i, <<".jpg">>)
        IN  (HasGifSuffix(e.url) /\ e.outcome = "ok") =>
                /\ e.via = "convert"
                /\ name \in DOMAIN fs /\ fs[name].kind = "jpeg"
                /\ TempName(name) \notin DOMAIN fs

(***************************************************************************)
(* Properties of insert_metadata (SpecSan).                                *)
(***************************************************************************)
\* the matches of a pattern in s, as re.finditer gives them
RECURSIVE MatchesFrom(_, _, _)
MatchesFrom(pat, s, i) ==
    IF i > Len(s) THEN <<>>
    ELSE LET m == Match(pat, 1, s, i)
         IN  IF m = <<>> THEN MatchesFrom(pat, s, i + 1)
             ELSE <<m>> \o MatchesFrom(pat, s, MatchEnd(m))
Matches(pat, s) == MatchesFrom(pat, s, 1)

\* a Markdown image ![..](..)
md_image_pattern ==
    << Lit(<<"!", "[">>), StarNot({"]"}), Lit(<<"]", "(">>), StarNot({")"}), Lit(<<")">>) >>

Count(s, t) == Cardinality({i \in 1..Len(s) : s[i] = t})
Contains(s, w) == \E i \in 1..(Len(s) - Len(w) + 1) : SubSeq(s, i, i + Len(w) - 1) = w
\* [Image: alt] and [Image], and rule 1's [PDF link](..)
Fallbacks(s) ==
    {i \in 1..(Len(s) - 1) :
        s[i] = "[" /\ s[i + 1] \in {"Image", "PDF"} /\ (i = 1 \/ s[i - 1] # "!")}
Targets(dl) == {dl.map[u].path : u \in DOMAIN dl.map} \cup {Placeholder}

\* C1: whatever the mapping (none and the empty one included), no <img> tag,
\* figure block or unresolved Markdown image of the input is left in the
\* output, and each was replaced once by a resolved or placeholder image or
\* by the text fallback (rule 1's PDF link counted as one).
C1_EveryConstructReplaced ==
    san_pc = "done" =>
        /\ Count(content, "<img") = 0 /\ Count(content, "<figure") = 0
        /\ \A k \in 1..Len(Matches(md_image_pattern, content)) :
              Group(content, Matches(md_image_pattern, content)[k], 4) \in Targets(san_images)
        /\ Len(Matches(md_image_pattern, content)) + Cardinality(Fallbacks(content))
              = Count(san_in, "<img") + Len(Matches(md_image_pattern, san_in))

\* C2: rules 1-7 applied to their own output change nothing.
C2_RulesIdempotent ==
    san_pc = "done" => Rules17(content, san_images) = content

\* C4: given a mapping, each <img src="L" alt="A"> is replaced by ![A](path)
\* for a downloaded L, ![A](example-image-a) for a placeholder L and
\* [Image: A] for an L that is no key, and the tag itself is gone.
ExpectedFor(url, alt, dl) ==
    IF url \notin DOMAIN dl.map THEN ImageFallback(alt)
    ELSE IF IsPlaceholder(dl.map[url]) THEN MdImage(alt, Placeholder)
    ELSE MdImage(alt, dl.map[url].path)

C4_ImgReplacedByMapping ==
    (san_pc = "done" /\ san_images.given) =>
        \A k \in 1..Len(Matches(image_pattern, san_in)) :
            LET m == Matches(image_pattern, san_in)[k]
            IN  /\ Contains(content, ExpectedFor(Group(san_in, m, 4), Group(san_in, m, 8), san_images))
                /\ ~Contains(content, SubSeq(san_in, m[1], MatchEnd(m) - 1))

\* C12: a run of tracking parameters (utm_..., _hsenc=...) from the "?" after
\* a URL path up to a ")" collapses to that ")": after line 185 the path is
\* followed at once by ")", and the text before and after the run is what
\* the rules make of it on its own.
IsSpecial(t) ==
    t \in WS \cup {"]", ")", ">", "\"", "&", "}", ":", "[", "(", "{", "?", "!",
                   "utm_", "_hsenc="}

\* the position after the parameter that starts at i, 0 if none starts there
ParamEnd(s, i) ==
    IF i <= Len(s) /\ s[i] \in {"utm_", "_hsenc="}
    THEN i + 1 + Run(StarNot(WS \cup {"&", ")"}), s, i + 1)
    ELSE 0

\* the position after the run of parameters, separated by "&", that starts at i
RECURSIVE RunEnd(_, _)
RunEnd(s, i) ==
    LET e == ParamEnd(s, i)
    IN  IF e = 0 THEN 0
        ELSE IF e <= Len(s) /\ s[e] = "&" /\ RunEnd(s, e + 1) # 0 THEN RunEnd(s, e + 1)
        ELSE e

\* the "?" positions of the runs that end directly before a ")"
TrackingRuns(s) ==
    {i \in 2..Len(s) :
        /\ s[i] = "?" /\ ~IsSpecial(s[i - 1])
        /\ RunEnd(s, i + 1) # 0 /\ RunEnd(s, i + 1) <= Len(s) /\ s[RunEnd(s, i + 1)] = ")"}

C12_TrackingRunCollapses ==
    san_pc = "tracked" =>
        \A i \in TrackingRuns(san_assets) :
            LET s == san_assets
                j == RunEnd(s, i + 1)
                before == RuleTracking(SubSeq(s, 1, i - 1))
            IN  /\ before # <<>> /\ before[Len(before)] = s[i - 1]
                /\ content = before \o <<")">> \o RuleTracking(SubSeq(s, j + 1, Len(s)))
                /\ Count(content, "utm_") = 0 /\ Count(content, "_hsenc=") = 0

\* ?_hsenc=a&_hsenc=b&_hsenc=c) passes through ?&&) and ?&) and ?) to )
C12_Witness ==
    /\ san_pc = "tracked"
    /\ \E i \in TrackingRuns(san_assets) :
          /\ Count(SubSeq(san_assets, i, RunEnd(san_assets, i + 1)), "_hsenc=") = 3
          /\ i > 2
    /\ Contains(content, <<"//x/q", ")">>)
    /\ Cardinality(TrackingRuns(san_assets)) = 2

\* C13: the text written starts with a line ---, then holds one line
\* "key: value" per field of metadata, the keys in one fixed order whatever
\* the order the dict was filled in, then a line ---, then (after an empty
\* line) the body as rules 1-7 left it; the values are those of metadata,
\* untouched by the rules.
RECURSIVE Lines(_)
Lines(s) ==
    IF s = <<>> THEN <<>>
    ELSE LET n == Run(StarNot({"\n"}), s, 1)
         IN  <<SubSeq(s, 1, n)>> \o Lines(SubSeq(s, n + 2, Len(s)))

\* the position of a key in the fixed order
Rank(key) == CHOOSE k \in 1..Len(KeyOrder) : KeyOrder[k] = key

C13_HeaderThenBody ==
    san_pc = "done" =>
        LET n == Len(metadata)
            hlen == Len(md_file) - Len(content) - 1
            ls == Lines(SubSeq(md_file, 1, hlen))
        IN  /\ hlen > 0 /\ SubSeq(md_file, hlen + 1, Len(md_file)) = <<"\n">> \o content
            /\ md_file[hlen] = "\n"
            /\ Len(ls) = n + 2 /\ ls[1] = <<"---">> /\ ls[n + 2] = <<"---">>
            /\ \A k \in 1..n :
                  /\ ls[k + 1][1] \in Keys(metadata)
                  /\ ls[k + 1] = <<ls[k + 1][1], ":", " ">>
                                    \o YamlScalar(Value(metadata, ls[k + 1][1]))
                  /\ k < n => Rank(ls[k + 1][1]) < Rank(ls[k + 2][1])

\* the dict filled in another order than the header lists it, a url that
\* rule 5 would rewrite, a body that rule 5 did rewrite
C13_Witness ==
    /\ san_pc = "done"
    /\ metadata[1][1] = "date" /\ Len(metadata) = 5
    /\ Contains(md_file, <<"url", ":", " ">> \o L_utm \o <<"\n">>)
    /\ Contains(san_in, <<"?", "utm_">>) /\ ~Contains(content, <<"?", "utm_">>)

\* C18: given a mapping that is not empty, a figure block around
\* <img src="L" alt="A"> is replaced as a whole by the replacement for L:
\* no <figure> tag, </figure> tag or <figcaption> markup is left in the output.
C18_FigureBlockReplaced ==
    (san_pc = "done" /\ Truthy(san_images)) =>
        \A k \in 1..Len(Matches(figure_pattern, san_in)) :
            LET m == Matches(figure_pattern, san_in)[k]
            IN  /\ Contains(content, ExpectedFor(Group(san_in, m, 8), Group(san_in, m, 12), san_images))
                /\ Count(content, "<figure") = 0 /\ Count(content, "</figure") = 0
                /\ Count(content, "<figcaption") = 0

(***************************************************************************)
(* More properties of download_images (SpecDl).                            *)
(***************************************************************************)
\* C19: when the fetch of a GIF locator succeeds and the conversion fails,
\* the destination {slug}_image_{n}.jpg holds the bytes as downloaded, the
\* temporary file is gone, the iteration records a real descriptor with path
\* img/{slug}_image_{n}.jpg, and the pass goes on to the locators after it
\* and returns.
C19_ConversionFailureFallsBack ==
    /\ \A k \in 1..Len(dl_log) :
          LET e == dl_log[k]
              name == FileName(e.i, <<".jpg">>)
          IN  e.outcome = "conv_fail" =>
                /\ name \in DOMAIN fs /\ fs[name] = [kind |-> "raw", src |-> e.url]
                /\ TempName(name) \notin DOMAIN fs
                /\ e.url \in DOMAIN downloaded_images
                /\ k = Last(Fetches(e.url)) =>
                      downloaded_images[e.url]
                          = [path |-> <<"img/">> \o name, alt |-> e.alt, filename |-> name]
    /\ dl_pc = "done" => Len(dl_log) = Cardinality(RemoteHits)

\* a conversion failed on the first locator, another locator after it was downloaded
C19_Witness ==
    /\ dl_pc = "done" /\ Len(dl_log) >= 2
    /\ dl_log[1].outcome = "conv_fail" /\ dl_log[2].outcome = "ok"
    /\ dl_log[2].url # dl_log[1].url
    /\ downloaded_images[dl_log[1].url].path = <<"img/">> \o FileName(dl_log[1].i, <<".jpg">>)
    /\ DOMAIN fs = {FileName(dl_log[1].i, <<".jpg">>), downloaded_images[dl_log[2].url].filename}

(***************************************************************************)
(* Properties of LaTeXCompiler (SpecTex).                                  *)
(***************************************************************************)
IsPass(e) == e.cmd = "xelatex"
IsProbe(e) == e.cmd = "xelatex --version"
IsCleanup(e) == e.cmd = "cleanup_aux_files"
Passes == SelectSeq(tex_log, IsPass)
Probes == SelectSeq(tex_log, IsProbe)
Cleanups == SelectSeq(tex_log, IsCleanup)
Requested == IF tex_call.two_pass THEN 2 ELSE 1
Compiling == tex_call.op = "compile_document"
HasTexExtension(f) == LowerSuffix(TexSuffix(f.name)) = ".tex"

Removable(g, f, keep_pdf) ==
    /\ g.dir = f.dir /\ TexStem(g.name) = TexStem(f.name)
    /\ \/ TexSuffix(g.name) \in {".aux", ".log", ".out", ".toc", ".nav", ".snm", ".fls", ".fdb_latexmk"}
       \/ ~keep_pdf /\ TexSuffix(g.name) = ".pdf"

C17_CleanupFrame ==
    (tex_pc = "returned" /\ tex_call.op = "cleanup_aux_files") =>
        /\ tex_fs \subseteq tex_fs0
        /\ \A g \in tex_fs0 \ tex_fs : Removable(g, tex_call.tex_file, tex_call.keep_pdf)
        /\ tex_call.tex_file \in tex_fs0 => tex_call.tex_file \in tex_fs
        /\ (tex_call.keep_pdf /\ Sibling(tex_call.tex_file, ".pdf") \in tex_fs0)
              => Sibling(tex_call.tex_file, ".pdf") \in tex_fs

\* keep_pdf False: the .aux, the .log and the PDF of doc.tex went, all else stayed
C17_Witness ==
    /\ tex_pc = "returned" /\ tex_call.op = "cleanup_aux_files" /\ ~tex_call.keep_pdf
    /\ tex_call.tex_file = File(".", <<"doc", ".tex">>)
    /\ tex_fs0 = TexUniverse
    /\ tex_fs0 \ tex_fs = { File(".", <<"doc", ".aux">>), File(".", <<"doc", ".log">>),
                            File(".", <<"doc", ".pdf">>) }

FailedCalls == {k \in 1..Len(main_tools) : main_tools[k].outcome = "failed"}
\* the function of main that makes the call
StageOf(tool) ==
    CASE tool = "requests.get" -> "fetch_html"
      [] tool = "pandoc -t markdown" -> "convert_to_markdown"
      [] OTHER -> "generate_pdf"
Typesetter == {"pandoc -o tex", "pandoc --pdf-engine=xelatex"}

\* C14: a failed page fetch and a non-zero exit of pandoc (converter or
\* typesetter) end the run: main has raised, the failing call is the last
\* call made and was made once, the function that made it is the last one
\* main called, and nothing of a later stage has happened (after a failed
\* fetch no extraction, no Markdown file, no download, no sanitizing, no
\* typesetting; after a failed conversion no download, no sanitizing, no
\* typesetting; after a failed typesetting no compilation).
C14_ToolFailureIsFatal ==
    /\ \A j, k \in 1..Len(main_tools) : main_tools[j].tool = main_tools[k].tool => j = k
    /\ \A k \in FailedCalls :
          LET tool == main_tools[k].tool
          IN  /\ main_pc = "raised"
              /\ k = Len(main_tools)
              /\ main_log # <<>> /\ main_log[Len(main_log)] = StageOf(tool)
              /\ Count(main_log, StageOf(tool)) = 1
              /\ tool = "requests.get" =>
                    /\ main_log = <<"fetch_html">>
                    /\ meta_pc = "idle" /\ html = <<>>
              /\ tool \in {"requests.get", "pandoc -t markdown"} =>
                    /\ md_file = <<>>
                    /\ dl_pc = "idle" /\ dl_log = <<>> /\ san_pc = "idle"
                    /\ tex_fs = {}
              /\ tool \in Typesetter => MainPdf \notin tex_fs
              /\ tex_pc = "idle"

C14_Witness ==
    /\ main_pc = "raised"
    /\ Len(main_tools) = 2
    /\ main_tools[1] = [tool |-> "requests.get", outcome |-> "ok"]
    /\ main_tools[2] = [tool |-> "pandoc -t markdown", outcome |-> "failed"]
    /\ meta_pc = "returned"

(***************************************************************************)
(* main: the order of the stages.                                          *)
(***************************************************************************)
StageOrder ==
    <<"fetch_html", "extract_metadata", "convert_to_markdown", "download_images",
      "insert_metadata", "generate_pdf">>

\* C15: in every run of main the functions called so far are a prefix of
\* fetch_html, extract_metadata, convert_to_markdown, download_images,
\* insert_metadata, generate_pdf; insert_metadata is called once in a run that
\* gets to it (so the file carries one header); and when it is called
\* download_images has returned with an entry for every remote locator, which
\* is the mapping rule 4 works with.
C15_StagesInOrder ==
    /\ Len(main_log) <= Len(StageOrder)
    /\ main_log = SubSeq(StageOrder, 1, Len(main_log))
    /\ Count(main_log, "insert_metadata") = (IF san_pc = "idle" THEN 0 ELSE 1)
    /\ main_pc \in {"sanitized", "tex_written", "typeset", "compiling", "returned"} =>
          /\ san_pc = "done"
          /\ Count(md_file, "---") = 2
    /\ san_pc # "idle" =>
          /\ dl_pc = "done"
          /\ san_in = dl_content
          /\ DOMAIN downloaded_images = RemoteLocs
          /\ \A u \in RemoteLocs :
                \E k \in Occurrences(u) :
                    downloaded_images[u] \in
                        {RealDesc(images[k][2], k, DestExt(u)), PlaceholderDesc(images[k][2])}
    /\ san_pc \in {"assets", "tracked", "done"} => san_images = Dict(downloaded_images)

C15_Witness ==
    /\ main_pc = "returned"
    /\ main_log = StageOrder
    /\ Cardinality(RemoteLocs) = 2
    /\ \E u \in RemoteLocs : downloaded_images[u].path = Placeholder
    /\ \E u \in RemoteLocs : downloaded_images[u].path # Placeholder

====
